---- MODULE Spec2Model ----
(***************************************************************************)
(* Drowsy-driver detection: the per-frame alert state machine of           *)
(* DrowsinessDetector.process_frame (src/detection.py) and the frame loop  *)
(* with its fire-and-forget alarm threads (src/app.py).                    *)
(*                                                                         *)
(* Units.  Eye and mouth ratios are floats in the source; the model counts *)
(* them in hundredths (0.25 is 25).  Wall-clock time is counted in ticks   *)
(* of ten minutes, so timedelta(minutes=30) is 3 and timedelta(minutes=10) *)
(* is 1; a frame may arrive in the same tick as the previous one.          *)
(***************************************************************************)
EXTENDS Integers, Sequences, FiniteSets, TLC

\* ---------------------------------------------------------------- constants
EAR_THRESHOLD == 25
MAR_THRESHOLD == 60
CONSEC_EYE_FRAMES == 50
YAWN_CONSEC_FRAMES == 15
YAWN_TIME_WINDOW == 3
YAWN_ALERT_COOLDOWN == 1

\* Python's None: an absent ratio, an absent last_yawn_alert_time.
None == -1

\* ------------------------------------------------------------------- bounds
\* Last clock tick the model explores.
MaxTime == 4
\* Longest run of closed-eye frames the model explores.
MaxEye == 51
\* Longest run of open-mouth frames the model explores.
MaxYawnRun == 16
\* Most yawn timestamps held after a frame.
MaxYawns == 4
\* Most sound_alarm threads alive at once.
MaxThreads == 2

\* Ratios a frame may show: below and at the eye threshold, at and above the
\* mouth threshold.
EarValues == {10, 25}
MarValues == {60, 80}
\* Clock ticks that may pass between two frames.
Steps == {0, 1}
Threads == 1..MaxThreads

VARIABLES
    eye_counter,            \* detector.eye_counter
    yawn_frame_counter,     \* detector.yawn_frame_counter
    yawn_timestamps,        \* detector.yawn_timestamps, a sequence of ticks
    ear_alert_active,       \* detector.ear_alert_active
    yawn_alert_active,      \* detector.yawn_alert_active
    last_yawn_alert_time,   \* detector.last_yawn_alert_time, None or a tick
    current_time,           \* datetime.now() as read by the last call
    ret,                    \* what the last process_frame call returned
    alarm_playing,          \* app.alarm_playing
    threads,                \* position of each sound_alarm thread
    streaming,              \* generate_frames is still in its while loop
    low_run,                \* history: trailing run of face frames with ear < threshold
    open_run,               \* history: trailing run of face frames with mar > threshold
    pending                 \* history: alerting frames whose alarm request has neither
                            \* started its beep nor been dropped

detector == <<eye_counter, yawn_frame_counter, yawn_timestamps, ear_alert_active,
              yawn_alert_active, last_yawn_alert_time>>
appvars == <<alarm_playing, threads, streaming, pending>>
vars == <<eye_counter, yawn_frame_counter, yawn_timestamps, ear_alert_active,
          yawn_alert_active, last_yawn_alert_time, current_time, ret,
          alarm_playing, threads, streaming, low_run, open_run, pending>>

\* ------------------------------------------------------------ process_frame

\* Mutant: the alert waits for the counter to exceed CONSEC_EYE_FRAMES.
EyeLogic_Late(ear, ec, ea, txt) ==
    IF ear < EAR_THRESHOLD
    THEN IF ec + 1 > CONSEC_EYE_FRAMES
         THEN [eye_counter |-> ec + 1, ear_alert_active |-> TRUE,
               alert_text |-> "DROWSINESS DETECTED via EYES"]
         ELSE [eye_counter |-> ec + 1, ear_alert_active |-> ea, alert_text |-> txt]
    ELSE [eye_counter |-> 0, ear_alert_active |-> FALSE, alert_text |-> txt]

\* Mutant: an open-eye frame resets the counter but leaves the alert up.
EyeLogic_StickyAlert(ear, ec, ea, txt) ==
    IF ear < EAR_THRESHOLD
    THEN IF ec + 1 >= CONSEC_EYE_FRAMES
         THEN [eye_counter |-> ec + 1, ear_alert_active |-> TRUE,
               alert_text |-> "DROWSINESS DETECTED via EYES"]
         ELSE [eye_counter |-> ec + 1, ear_alert_active |-> ea, alert_text |-> txt]
    ELSE [eye_counter |-> 0, ear_alert_active |-> ea, alert_text |-> txt]

\* --- EAR (Eye Drowsiness) Logic ---
EyeLogic(ear, ec, ea, txt) ==
    IF ear < EAR_THRESHOLD
    THEN IF ec + 1 >= CONSEC_EYE_FRAMES
         THEN [eye_counter |-> ec + 1, ear_alert_active |-> TRUE,
               alert_text |-> "DROWSINESS DETECTED via EYES"]
         ELSE [eye_counter |-> ec + 1, ear_alert_active |-> ea, alert_text |-> txt]
    ELSE [eye_counter |-> 0, ear_alert_active |-> FALSE, alert_text |-> txt]

\* Mutant: a yawn is recorded on every open-mouth frame once the run is long
\* enough, instead of once when the run ends.
YawnLogic_EveryFrame(mar, yc, ts, t) ==
    IF mar > MAR_THRESHOLD
    THEN [yawn_frame_counter |-> yc + 1,
          yawn_timestamps |-> IF yc + 1 >= YAWN_CONSEC_FRAMES THEN Append(ts, t) ELSE ts]
    ELSE [yawn_frame_counter |-> 0, yawn_timestamps |-> ts]

\* --- MAR (Yawn) Logic ---
YawnLogic(mar, yc, ts, t) ==
    IF mar > MAR_THRESHOLD
    THEN [yawn_frame_counter |-> yc + 1, yawn_timestamps |-> ts]
    ELSE [yawn_frame_counter |-> 0,
          yawn_timestamps |-> IF yc >= YAWN_CONSEC_FRAMES THEN Append(ts, t) ELSE ts]

\* Mutant: nothing is ever pruned.
PruneYawns_Keep(ts, t) == ts

\* Remove yawns older than YAWN_TIME_WINDOW.
PruneYawns(ts, t) == SelectSeq(ts, LAMBDA x : t - x <= YAWN_TIME_WINDOW)

\* Mutant: the alert needs more than 4 surviving yawns.
YawnAlert_Late(ts, last, ea, t, txt) ==
    IF Len(ts) > 4
    THEN IF last = None \/ t - last > YAWN_ALERT_COOLDOWN
         THEN [yawn_alert_active |-> TRUE, last_yawn_alert_time |-> t,
               alert_text |-> IF ~ea THEN "DROWSINESS DETECTED via YAWNS" ELSE txt]
         ELSE [yawn_alert_active |-> FALSE, last_yawn_alert_time |-> last,
               alert_text |-> txt]
    ELSE [yawn_alert_active |-> FALSE, last_yawn_alert_time |-> last, alert_text |-> txt]

\* Mutant: the cooldown is not consulted.
YawnAlert_NoCooldown(ts, last, ea, t, txt) ==
    IF Len(ts) > 3
    THEN [yawn_alert_active |-> TRUE, last_yawn_alert_time |-> t,
          alert_text |-> IF ~ea THEN "DROWSINESS DETECTED via YAWNS" ELSE txt]
    ELSE [yawn_alert_active |-> FALSE, last_yawn_alert_time |-> last, alert_text |-> txt]

\* Mutant: the cooldown ends one tick early (>= in place of >).
YawnAlert_CooldownInclusive(ts, last, ea, t, txt) ==
    IF Len(ts) > 3
    THEN IF last = None \/ t - last >= YAWN_ALERT_COOLDOWN
         THEN [yawn_alert_active |-> TRUE, last_yawn_alert_time |-> t,
               alert_text |-> IF ~ea THEN "DROWSINESS DETECTED via YAWNS" ELSE txt]
         ELSE [yawn_alert_active |-> FALSE, last_yawn_alert_time |-> last,
               alert_text |-> txt]
    ELSE [yawn_alert_active |-> FALSE, last_yawn_alert_time |-> last, alert_text |-> txt]

\* Mutant: a later alert keeps the time of the first one.
YawnAlert_StaleTime(ts, last, ea, t, txt) ==
    IF Len(ts) > 3
    THEN IF last = None \/ t - last > YAWN_ALERT_COOLDOWN
         THEN [yawn_alert_active |-> TRUE,
               last_yawn_alert_time |-> IF last = None THEN t ELSE last,
               alert_text |-> IF ~ea THEN "DROWSINESS DETECTED via YAWNS" ELSE txt]
         ELSE [yawn_alert_active |-> FALSE, last_yawn_alert_time |-> last,
               alert_text |-> txt]
    ELSE [yawn_alert_active |-> FALSE, last_yawn_alert_time |-> last, alert_text |-> txt]

\* --- Yawn Alert Handling ---
YawnAlert(ts, last, ea, t, txt) ==
    IF Len(ts) > 3
    THEN IF last = None \/ t - last > YAWN_ALERT_COOLDOWN
         THEN [yawn_alert_active |-> TRUE, last_yawn_alert_time |-> t,
               alert_text |-> IF ~ea THEN "DROWSINESS DETECTED via YAWNS" ELSE txt]
         ELSE [yawn_alert_active |-> FALSE, last_yawn_alert_time |-> last,
               alert_text |-> txt]
    ELSE [yawn_alert_active |-> FALSE, last_yawn_alert_time |-> last, alert_text |-> txt]

\* Mutant: the closing chain is missing and the label assigned earlier in the
\* frame is returned.
FinalText_Keep(ea, ya, txt) == txt

\* The closing if/elif chain that sets the returned label.
FinalText(ea, ya, txt) ==
    IF ea /\ ya THEN "DROWSINESS DETECTED (EYES & YAWNS)"
    ELSE IF ea THEN "DROWSINESS DETECTED (EYES)"
    ELSE IF ya THEN "DROWSINESS DETECTED (YAWNS)"
    ELSE ""

\* The branch taken when result.multi_face_landmarks is truthy.
FaceFound(ear, mar, t) ==
    LET e == EyeLogic(ear, eye_counter, ear_alert_active, "")
        y == YawnLogic(mar, yawn_frame_counter, yawn_timestamps, t)
        ts == PruneYawns(y.yawn_timestamps, t)
        a == YawnAlert(ts, last_yawn_alert_time, e.ear_alert_active, t, e.alert_text)
    IN [eye_counter |-> e.eye_counter,
        yawn_frame_counter |-> y.yawn_frame_counter,
        yawn_timestamps |-> ts,
        ear_alert_active |-> e.ear_alert_active,
        yawn_alert_active |-> a.yawn_alert_active,
        last_yawn_alert_time |-> a.last_yawn_alert_time,
        ear |-> ear, mar |-> mar,
        alert_text |-> FinalText(e.ear_alert_active, a.yawn_alert_active, a.alert_text)]

\* Mutant: a frame without a face resets the eye counter.
NoFace_ResetsEye ==
    [eye_counter |-> 0,
     yawn_frame_counter |-> yawn_frame_counter,
     yawn_timestamps |-> yawn_timestamps,
     ear_alert_active |-> ear_alert_active,
     yawn_alert_active |-> yawn_alert_active,
     last_yawn_alert_time |-> last_yawn_alert_time,
     ear |-> None, mar |-> None, alert_text |-> ""]

\* Mutant: a frame without a face clears the progress toward the eyes alert.
NoFace_ClearsEyeProgress ==
    [eye_counter |-> 0,
     yawn_frame_counter |-> yawn_frame_counter,
     yawn_timestamps |-> yawn_timestamps,
     ear_alert_active |-> FALSE,
     yawn_alert_active |-> yawn_alert_active,
     last_yawn_alert_time |-> last_yawn_alert_time,
     ear |-> None, mar |-> None, alert_text |-> ""]

\* The path taken when no face is found: the if body is skipped.
NoFace ==
    [eye_counter |-> eye_counter,
     yawn_frame_counter |-> yawn_frame_counter,
     yawn_timestamps |-> yawn_timestamps,
     ear_alert_active |-> ear_alert_active,
     yawn_alert_active |-> yawn_alert_active,
     last_yawn_alert_time |-> last_yawn_alert_time,
     ear |-> None, mar |-> None, alert_text |-> ""]

\* One call of process_frame on a frame read dt ticks after the previous one,
\* in which the face mesh finds a face (with ratios ear, mar) or none.
process_frame(face, ear, mar, dt) ==
    \E t \in {current_time + dt} :
       /\ t <= MaxTime
       /\ (face /\ ear < EAR_THRESHOLD) => eye_counter < MaxEye
       /\ (face /\ mar > MAR_THRESHOLD) => yawn_frame_counter < MaxYawnRun
       /\ \E r \in {IF face THEN FaceFound(ear, mar, t) ELSE NoFace} :
            /\ Len(r.yawn_timestamps) <= MaxYawns
            /\ current_time' = t
            /\ eye_counter' = r.eye_counter
            /\ yawn_frame_counter' = r.yawn_frame_counter
            /\ yawn_timestamps' = r.yawn_timestamps
            /\ ear_alert_active' = r.ear_alert_active
            /\ yawn_alert_active' = r.yawn_alert_active
            /\ last_yawn_alert_time' = r.last_yawn_alert_time
            /\ ret' = [face |-> face, ear |-> r.ear, mar |-> r.mar,
                       alert_text |-> r.alert_text]
            /\ low_run' = IF ~face THEN low_run
                          ELSE IF ear < EAR_THRESHOLD THEN low_run + 1 ELSE 0
            /\ open_run' = IF ~face THEN open_run
                           ELSE IF mar > MAR_THRESHOLD THEN open_run + 1 ELSE 0

Init ==
    /\ eye_counter = 0
    /\ yawn_frame_counter = 0
    /\ yawn_timestamps = << >>
    /\ ear_alert_active = FALSE
    /\ yawn_alert_active = FALSE
    /\ last_yawn_alert_time = None
    /\ current_time = 0
    /\ ret = [face |-> FALSE, ear |-> None, mar |-> None, alert_text |-> ""]
    /\ alarm_playing = FALSE
    /\ threads = [i \in Threads |-> "none"]
    /\ streaming = TRUE
    /\ low_run = 0
    /\ open_run = 0
    /\ pending = 0

\* The detector driven directly, one process_frame call per step.
FaceFrame ==
    \E ear \in EarValues, mar \in MarValues, dt \in Steps :
        /\ process_frame(TRUE, ear, mar, dt)
        /\ UNCHANGED appvars

NoFaceFrame ==
    \E dt \in Steps :
        /\ process_frame(FALSE, None, None, dt)
        /\ UNCHANGED appvars

Next == FaceFrame \/ NoFaceFrame

Spec == Init /\ [][Next]_vars


\* ------------------------------------------------------------------- app.py

\* Mutant: the loop joins the alarm thread it started.
AwaitsAlarm_Join(ths) == \E i \in Threads : ths[i] # "none"

\* Whether the frame loop waits for the alarm threads before its next step:
\* Thread(target=sound_alarm).start() is never followed by a join.
AwaitsAlarm(ths) == FALSE

\* threading.Thread(target=sound_alarm).start(): a new thread, about to test
\* alarm_playing.
StartAlarm(ths) ==
    LET free == {i \in Threads : ths[i] = "none"}
        i == CHOOSE j \in free : \A k \in free : j <= k
    IN [ths EXCEPT ![i] = "check"]

\* Frames the camera shows in the application runs the model explores: any
\* eye ratio, the mouth closed.
AppMarValues == {m \in MarValues : m <= MAR_THRESHOLD}

\* One iteration of the while loop of generate_frames with cap.read()
\* succeeding: process_frame, then the alarm thread if the label is non-empty,
\* then the yield.
GenerateFrames ==
    /\ streaming
    /\ ~AwaitsAlarm(threads)
    /\ \E face \in BOOLEAN, ear \in EarValues, mar \in AppMarValues, dt \in Steps :
          process_frame(face, IF face THEN ear ELSE None, IF face THEN mar ELSE None, dt)
    /\ IF ret'.alert_text # ""
       THEN /\ \E i \in Threads : threads[i] = "none"
            /\ threads' = StartAlarm(threads)
       ELSE threads' = threads
    /\ pending' = IF ret'.alert_text # "" THEN pending + 1 ELSE pending
    /\ UNCHANGED <<alarm_playing, streaming>>

\* cap.read() fails: the loop breaks and the generator ends.
CameraStops ==
    /\ streaming
    /\ streaming' = FALSE
    /\ UNCHANGED <<detector, current_time, ret, alarm_playing, threads, low_run, open_run,
                   pending>>

\* Mutant: a thread that finds the flag set waits and tests it again, so its
\* request is queued instead of dropped.
CheckOutcome_Queue(playing) == IF ~playing THEN "set" ELSE "check"

\* "if not alarm_playing:" leads into the body, or past it to the end of the
\* function.
CheckOutcome(playing) == IF ~playing THEN "set" ELSE "none"

\* sound_alarm, line by line.  The test of alarm_playing; a thread that reads
\* it as true has had its request dropped.
AlarmCheck(i) ==
    /\ threads[i] = "check"
    /\ threads' = [threads EXCEPT ![i] = CheckOutcome(alarm_playing)]
    /\ pending' = IF alarm_playing THEN pending - 1 ELSE pending
    /\ UNCHANGED <<detector, current_time, ret, alarm_playing, streaming, low_run, open_run>>

\* "alarm_playing = True", and the beep starts.
AlarmSet(i) ==
    /\ threads[i] = "set"
    /\ alarm_playing' = TRUE
    /\ threads' = [threads EXCEPT ![i] = "beep"]
    /\ pending' = pending - 1
    /\ UNCHANGED <<detector, current_time, ret, streaming, low_run, open_run>>

\* "winsound.Beep(1000, 1000)" returns after its second of sound.
AlarmBeep(i) ==
    /\ threads[i] = "beep"
    /\ threads' = [threads EXCEPT ![i] = "clear"]
    /\ UNCHANGED <<detector, current_time, ret, alarm_playing, streaming, low_run, open_run,
                   pending>>

\* Mutant: the thread ends without resetting the flag.
AlarmClear_Forgets(i) ==
    /\ threads[i] = "clear"
    /\ threads' = [threads EXCEPT ![i] = "none"]
    /\ UNCHANGED <<detector, current_time, ret, alarm_playing, streaming, low_run, open_run,
                   pending>>

\* "alarm_playing = False", and the thread ends.
AlarmClear(i) ==
    /\ threads[i] = "clear"
    /\ alarm_playing' = FALSE
    /\ threads' = [threads EXCEPT ![i] = "none"]
    /\ UNCHANGED <<detector, current_time, ret, streaming, low_run, open_run, pending>>

sound_alarm(i) == AlarmCheck(i) \/ AlarmSet(i) \/ AlarmBeep(i) \/ AlarmClear(i)

NextApp == GenerateFrames \/ CameraStops \/ \E i \in Threads : sound_alarm(i)

\* The application: the frame loop and the alarm threads it starts.
SpecApp == Init /\ [][NextApp]_vars

\* The application with every started thread scheduled again and again (the
\* operating system starves no thread, and Beep returns).
FairSpecApp == SpecApp /\ \A i \in Threads : WF_vars(sound_alarm(i))

\* ------------------------------------------------------------------- claims

EyesLabel == "DROWSINESS DETECTED (EYES)"
YawnsLabel == "DROWSINESS DETECTED (YAWNS)"
BothLabel == "DROWSINESS DETECTED (EYES & YAWNS)"

\* The timestamps of ts that lie within YAWN_TIME_WINDOW of tick t.
Surviving(ts, t) == SelectSeq(ts, LAMBDA x : t - x <= YAWN_TIME_WINDOW)

\* C1: once the eye ratio has been below EAR_THRESHOLD on CONSEC_EYE_FRAMES
\* face-found frames in a row, ear_alert_active is true (and was still false one
\* frame earlier), the label of a face-found frame is the EYES label when no
\* yawn alert is active, and the flag stays true for as long as the run is
\* unbroken; a face-found frame whose ratio is >= EAR_THRESHOLD leaves
\* eye_counter = 0 and ear_alert_active false.
C1_EyeAlertOnNthFrame ==
    /\ low_run >= CONSEC_EYE_FRAMES => ear_alert_active
    /\ low_run = CONSEC_EYE_FRAMES - 1 => ~ear_alert_active
    /\ (low_run >= CONSEC_EYE_FRAMES /\ ret.face /\ ~yawn_alert_active)
          => ret.alert_text = EyesLabel
    /\ (ret.face /\ ret.ear >= EAR_THRESHOLD)
          => (eye_counter = 0 /\ ~ear_alert_active /\ ret.alert_text \notin {EyesLabel, BothLabel})

\* C1 witness: the frame after the CONSEC_EYE_FRAMES-th closed-eye frame, still
\* closed, with the alert up and the EYES label returned.
C1_Witness ==
    /\ low_run = CONSEC_EYE_FRAMES + 1
    /\ ear_alert_active
    /\ ret.face
    /\ ret.alert_text = EyesLabel

\* C2: ear_alert_active is never true unless the last CONSEC_EYE_FRAMES
\* face-found frames were all below threshold; so a run of at most
\* CONSEC_EYE_FRAMES - 1 such frames, then a frame at or above the threshold,
\* never raises it.
C2_NoEarlyEyeAlert == ear_alert_active => low_run >= CONSEC_EYE_FRAMES

\* C2 witness: a run of CONSEC_EYE_FRAMES - 1 closed-eye frames has been seen
\* and the alert is down.
C2_Witness ==
    /\ low_run = CONSEC_EYE_FRAMES - 1
    /\ eye_counter = CONSEC_EYE_FRAMES - 1
    /\ ~ear_alert_active
    /\ ret.face

\* C3: on a face-found frame the list of yawn timestamps becomes its surviving
\* entries, plus exactly one entry (the frame's time) when the frame closes the
\* mouth after an open run of at least YAWN_CONSEC_FRAMES frames; nothing is
\* added during the open run or after a shorter run, and a closed-mouth frame
\* leaves yawn_frame_counter = 0.
C3_YawnCountedOnce ==
    [][ ret'.face =>
          IF ret'.mar > MAR_THRESHOLD
          THEN yawn_timestamps' = Surviving(yawn_timestamps, current_time')
          ELSE /\ yawn_frame_counter' = 0
               /\ yawn_timestamps' =
                     IF open_run >= YAWN_CONSEC_FRAMES
                     THEN Append(Surviving(yawn_timestamps, current_time'), current_time')
                     ELSE Surviving(yawn_timestamps, current_time')
      ]_vars

\* C3 witness: a closed-mouth frame has just recorded a yawn at its own time.
C3_Witness ==
    /\ ret.face
    /\ ret.mar <= MAR_THRESHOLD
    /\ open_run = 0
    /\ yawn_frame_counter = 0
    /\ Len(yawn_timestamps) = 1
    /\ yawn_timestamps[1] = current_time

\* C4: with last_yawn_alert_time absent, the face-found frame that leaves more
\* than 3 surviving timestamps ends with yawn_alert_active true,
\* last_yawn_alert_time equal to the frame's time and a label containing YAWNS;
\* a frame that leaves 3 or fewer ends with yawn_alert_active false.
C4_FourthYawnAlerts ==
    [][ /\ (ret'.face /\ last_yawn_alert_time = None /\ Len(yawn_timestamps') > 3)
            => /\ yawn_alert_active'
               /\ last_yawn_alert_time' = current_time'
               /\ ret'.alert_text \in {YawnsLabel, BothLabel}
        /\ Len(yawn_timestamps') <= 3 => ~yawn_alert_active'
      ]_vars

\* C4 witness: the closed-mouth frame that recorded the fourth yawn, all in the
\* first tick (so no alert can have preceded it), with the alert up.
C4_Witness ==
    /\ ret.face
    /\ ret.mar <= MAR_THRESHOLD
    /\ current_time = 0
    /\ Len(yawn_timestamps) = 4
    /\ yawn_alert_active
    /\ last_yawn_alert_time = 0
    /\ ret.alert_text = YawnsLabel

\* C5: a face-found frame sets yawn_alert_active only if no alert was set before
\* or the last one lies more than YAWN_ALERT_COOLDOWN back; within the cooldown
\* the frame leaves the flag false and last_yawn_alert_time unchanged.
C5_CooldownHolds ==
    [][ (ret'.face /\ last_yawn_alert_time # None)
          => /\ yawn_alert_active' => current_time' - last_yawn_alert_time > YAWN_ALERT_COOLDOWN
             /\ current_time' - last_yawn_alert_time <= YAWN_ALERT_COOLDOWN
                  => (~yawn_alert_active' /\ last_yawn_alert_time' = last_yawn_alert_time)
      ]_vars

\* C5 witness: the alert has been set a second time (the newest of the four or
\* more timestamps is older than this frame, so an earlier frame had already
\* seen more than 3).
C5_Witness ==
    /\ ret.face
    /\ yawn_alert_active
    /\ Len(yawn_timestamps) > 3
    /\ yawn_timestamps[Len(yawn_timestamps)] < current_time
    /\ last_yawn_alert_time = current_time

\* C6 as claimed: after every call, with or without a face, every timestamp lies
\* within YAWN_TIME_WINDOW of the call's time.
C6_AlwaysWithinWindow ==
    \A i \in DOMAIN yawn_timestamps : current_time - yawn_timestamps[i] <= YAWN_TIME_WINDOW

\* C6 amended: after every call in which a face was found, every timestamp lies
\* within YAWN_TIME_WINDOW of the call's time.
C6_WithinWindowAfterFace ==
    ret.face =>
        \A i \in DOMAIN yawn_timestamps : current_time - yawn_timestamps[i] <= YAWN_TIME_WINDOW

\* C6 witness: a face-found frame after an alert, holding a timestamp but fewer
\* than the alert needed: older ones have been pruned.
C6_Witness ==
    /\ ret.face
    /\ last_yawn_alert_time # None
    /\ Len(yawn_timestamps) \in 1..3
    /\ current_time > YAWN_TIME_WINDOW

\* C7: a frame in which no face is found returns absent ratios and an empty
\* label and changes no field of the detector.
C7_NoFaceNoOp ==
    [][ ~ret'.face =>
          /\ ret'.ear = None /\ ret'.mar = None /\ ret'.alert_text = ""
          /\ UNCHANGED detector
      ]_vars

\* C7 witness: a no-face frame has been processed while both alerts were up.
C7_Witness ==
    /\ ~ret.face
    /\ ret.alert_text = ""
    /\ ear_alert_active
    /\ yawn_alert_active
    /\ eye_counter >= CONSEC_EYE_FRAMES

\* C8: the label a face-found frame returns is decided by the two flags as they
\* stand at the end of the frame: both, eyes only, yawns only, neither.
C8_LabelFromFlags ==
    ret.face =>
        /\ (ear_alert_active /\ yawn_alert_active) => ret.alert_text = BothLabel
        /\ (ear_alert_active /\ ~yawn_alert_active) => ret.alert_text = EyesLabel
        /\ (~ear_alert_active /\ yawn_alert_active) => ret.alert_text = YawnsLabel
        /\ (~ear_alert_active /\ ~yawn_alert_active) => ret.alert_text = ""

\* C8 witness: a face-found frame ended with both alerts up and the combined
\* label.
C8_Witness ==
    /\ ret.face
    /\ ear_alert_active
    /\ yawn_alert_active
    /\ ret.alert_text = BothLabel

\* C9: while an alarm beep is in progress the frame loop can still take its next
\* step (as long as the camera delivers frames).
C9_LoopNeverWaits ==
    (streaming /\ \E i \in Threads : threads[i] = "beep") => ENABLED GenerateFrames

\* C9 witness: a frame was processed, and its alarm thread started, while
\* another thread was in its beep.
C9_Witness ==
    /\ streaming
    /\ alarm_playing
    /\ \E i, j \in Threads : threads[i] = "beep" /\ threads[j] = "check"

\* C10: at most one sound_alarm thread at a time is between setting
\* alarm_playing to True and setting it back to False.
C10_OneBeepAtATime ==
    Cardinality({i \in Threads : threads[i] \in {"beep", "clear"}}) <= 1

\* Alarm requests still undecided: threads that have not yet tested the flag, or
\* have passed the test and not yet started their beep.
Undecided(ths) == Cardinality({i \in Threads : ths[i] \in {"check", "set"}})

\* C11: alarm requests are dropped, never queued.  A loop iteration starts
\* exactly one thread when its label is non-empty and none otherwise; a thread
\* that reads alarm_playing as true ends without beeping and without changing
\* the flag; and the alerting frames not yet answered by a beep or a drop are
\* exactly the threads still before their beep, so beeps never outnumber
\* alerting frames and no dropped request beeps later.
C11_DroppedNotQueued ==
    [][ /\ pending' = Undecided(threads')
        /\ GenerateFrames =>
              Cardinality({i \in Threads : threads'[i] # threads[i]})
                 = (IF ret'.alert_text # "" THEN 1 ELSE 0)
        /\ \A i \in Threads :
              (threads[i] = "check" /\ alarm_playing /\ threads'[i] # threads[i])
                 => (threads'[i] = "none" /\ alarm_playing' = alarm_playing)
        /\ \A i \in Threads :
              (threads'[i] = "beep" /\ threads[i] # "beep") => threads[i] = "set"
      ]_vars

\* C11 witness: a thread found the flag set and ended (its slot is free again)
\* while the beep that made it drop is still in progress and no request is
\* left undecided.
C11_Witness ==
    /\ alarm_playing
    /\ pending = 0
    /\ \E i, j \in Threads : threads[i] = "beep" /\ threads[j] = "none"
    /\ ret.alert_text # ""
    /\ eye_counter > CONSEC_EYE_FRAMES

\* C12 as claimed: with every frame at most YAWN_ALERT_COOLDOWN after the one
\* before it (Steps allows no larger gap), yawn_alert_active is never true at the
\* end of two face-found frames in a row.
C12_NeverTwiceInARow ==
    [][ (ret'.face /\ yawn_alert_active) => ~yawn_alert_active' ]_vars

\* C12 amended: a face-found frame that leaves more than 3 timestamps within
\* YAWN_ALERT_COOLDOWN of last_yawn_alert_time ends with yawn_alert_active false,
\* also when the flag was true before it; so the flag is never true at the end
\* of two face-found frames in a row whose times differ by at most
\* YAWN_ALERT_COOLDOWN (while the flag is up, last_yawn_alert_time is the time
\* of the face-found frame that raised it, the most recent one).
C12_OffDuringCooldown ==
    [][ ret'.face =>
          /\ ( /\ Len(yawn_timestamps') > 3
               /\ last_yawn_alert_time # None
               /\ current_time' - last_yawn_alert_time <= YAWN_ALERT_COOLDOWN )
                => ~yawn_alert_active'
          /\ ( /\ yawn_alert_active
               /\ current_time' - last_yawn_alert_time <= YAWN_ALERT_COOLDOWN )
                => ~yawn_alert_active'
      ]_vars

\* C12 witness: a face-found frame inside the cooldown has left the flag false
\* although more than 3 timestamps survive.
C12_Witness ==
    /\ ret.face
    /\ Len(yawn_timestamps) > 3
    /\ last_yawn_alert_time # None
    /\ current_time - last_yawn_alert_time <= YAWN_ALERT_COOLDOWN
    /\ ~yawn_alert_active
    /\ ret.alert_text = ""

\* C13: eye_counter is the length of the trailing run of face-found frames with
\* eye ratio below EAR_THRESHOLD, frames without a face being skipped and not
\* breaking the run; so the alert is up as soon as the closed-eye frames before
\* and after a dropout add up to CONSEC_EYE_FRAMES.
C13_DropoutKeepsProgress ==
    /\ eye_counter = low_run
    /\ low_run >= CONSEC_EYE_FRAMES => ear_alert_active

\* C13 witness: a dropout in the middle of a closed-eye run: the last frame had
\* no face, and the counter still holds the CONSEC_EYE_FRAMES - 1 closed-eye
\* frames seen before it.
C13_Witness ==
    /\ ~ret.face
    /\ low_run = CONSEC_EYE_FRAMES - 1
    /\ eye_counter = CONSEC_EYE_FRAMES - 1
    /\ ~ear_alert_active
    /\ current_time > 0

\* C14: ear_alert_active is true exactly when eye_counter >= CONSEC_EYE_FRAMES.
C14_EyeAlertIffCounter == ear_alert_active <=> eye_counter >= CONSEC_EYE_FRAMES

\* C14 witness: the counter has just reached CONSEC_EYE_FRAMES and the alert is
\* up.
C14_Witness ==
    /\ ret.face
    /\ eye_counter = CONSEC_EYE_FRAMES
    /\ ear_alert_active

\* C15: whenever yawn_alert_active is true, more than 3 timestamps are held and
\* last_yawn_alert_time is present and is the time of the most recent face-found
\* frame (the frame itself if it found a face; otherwise the frame found none
\* and left flag and time as they were); last_yawn_alert_time, once set, is
\* never cleared and never decreases.
C15_YawnAlertState ==
    [][ /\ yawn_alert_active' =>
              /\ Len(yawn_timestamps') > 3
              /\ last_yawn_alert_time' # None
              /\ ret'.face => last_yawn_alert_time' = current_time'
              /\ ~ret'.face => (yawn_alert_active
                                   /\ last_yawn_alert_time' = last_yawn_alert_time)
        /\ last_yawn_alert_time # None =>
              (last_yawn_alert_time' # None /\ last_yawn_alert_time' >= last_yawn_alert_time)
      ]_vars

\* C15 witness: the alert has been set a second time, at a later tick, and a
\* frame without a face has followed at a tick later still.
C15_Witness ==
    /\ ~ret.face
    /\ yawn_alert_active
    /\ Len(yawn_timestamps) > 3
    /\ last_yawn_alert_time > yawn_timestamps[Len(yawn_timestamps)]
    /\ current_time > last_yawn_alert_time

====
